---------------------------- MODULE Spec2Model ----------------------------
(***************************************************************************)
(* Model of src/src/utils/code_runner.py: run_python_code (the execution   *)
(* sandbox with its capture of the process-wide streams), and the two      *)
(* harness loops validate_test_cases and run_code_with_function.           *)
(*                                                                         *)
(* One foreground caller makes a harness call.  Every run_python_code call *)
(* starts one thread (numbered 1, 2, ... in start order) that runs         *)
(* execute().  A thread whose join timed out is left running, next to the  *)
(* threads of later calls.                                                 *)
(*                                                                         *)
(* Granularity: the three assignments of a block (lines 48-50, 54-60,      *)
(* 93-95) are one step each, so sys.stdin, sys.stdout and sys.stderr       *)
(* change together.  Time is the one event "EXECUTION_TIMEOUT seconds have *)
(* passed since the join began"; a thread may take any number of steps     *)
(* before it.  The code under test is an input.  It is either arbitrary    *)
(* printing code, whose every execution writes up to MaxWrites characters  *)
(* to whatever sys.stdout / sys.stderr are at that moment and then         *)
(* returns, raises an Exception, raises a BaseException, or goes on        *)
(* running for ever; or a deterministic program, whose every execution     *)
(* does the same things (printing a character, using a built-in by its     *)
(* name, binding a global name) and ends the same way, at its own pace.    *)
(*                                                                         *)
(* Strings are sequences of one-character strings; what is written to a    *)
(* stream is a sequence of [w, ch] records, w naming the execution whose   *)
(* snippet wrote the character ch.                                         *)
(***************************************************************************)
EXTENDS Integers, Sequences, FiniteSets, TLC

VARIABLES
    sys,          \* sys.stdin / sys.stdout / sys.stderr: 0 = the host's stream, c = the StringIO made by execution c
    buf,          \* buf[c][s]: what stdout_capture / stderr_capture of execution c holds, while c can still read it
    tpc,          \* tpc[c]: position of the thread of execution c inside execute()
    old,          \* old[c]: old_stdin / old_stdout / old_stderr of execution c
    output,       \* output[c]: the local "output" of execute() (line 81)
    rq,           \* rq[c]: result_queue of call c
    outcome,      \* outcome[c]: how exec(code) ended in execution c ("running" while it has not)
    nwrites,      \* nwrites[c]: number of things the snippet of the running execution c has done
    ncalls,       \* number of run_python_code calls made so far
    hpc,          \* position of the foreground caller
    mode,         \* "direct" (validate_test_cases) or "function" (run_code_with_function)
    test_cases,   \* the test_cases argument of the harness call
    idx,          \* number of test cases the for loop has taken
    base,         \* ncalls when the harness call began
    results,      \* the harness' results list
    all_passed,   \* the harness' all_passed flag
    timer,        \* seconds waited in the thread.join of call Cur: 0 until the timeout elapses
    call,         \* call[c]: arguments of call c, and the streams and the live threads when it began
    ret,          \* ret[c]: what call c returned (<<>> while it has not)
    waited,       \* waited[c]: seconds that have passed while call c was in its join
    builtins,     \* the names in the host's built-in table (__builtins__ of the module)
    safe_builtins, \* safe_builtins[c]: the names in the dict of that name of execution c
    ns,           \* ns[g]: the names bound in the globals dict g, each with the execution that bound it
    performed,    \* the <<c, n>> such that the snippet of execution c found and used the built-in n
    program,      \* what the code under test does when it is executed
    daemon,       \* daemon[c]: the daemon attribute of the thread of call c
    func_name, \* the func_name argument of run_code_with_function
    template,     \* question.code_template of the answer check that made the harness call
    checking,     \* the harness call was made by QuizController._check_coding_answer
    report        \* what _check_coding_answer returned (<<>> while it has not)

sandbox == <<builtins, safe_builtins, ns, performed, program>>

quiz == <<func_name, template, checking, report>>

vars == <<sys, buf, tpc, old, output, rq, outcome, nwrites, ncalls, hpc, mode,
          test_cases, idx, base, results, all_passed, timer, call, ret, waited, sandbox,
          daemon, quiz>>

(***************************************************************************)
(* Bounds and program constants                                            *)
(***************************************************************************)
MaxExecs == 2

MaxWrites == 1

EXECUTION_TIMEOUT == 5

Execs == 1..MaxExecs

StreamNames == {"stdin", "stdout", "stderr"}

OutNames == {"stdout", "stderr"}

Chars == {"a", " "}

\* lines 67-72
DangerousFunctions ==
    {"eval", "exec", "compile", "open", "__import__", "globals", "locals", "vars",
     "dir", "getattr", "setattr", "delattr", "hasattr", "exit", "quit"}

\* the host's built-in table: the dangerous functions and others, print among them
HostBuiltins == DangerousFunctions \cup {"print", "input", "len"}

\* one thing a snippet does: print the character ch to the stream arg, use the
\* built-in arg by its name, or bind the global name arg
WriteOp(s, ch) == [op |-> "write", arg |-> s, ch |-> ch]

UseOp(n) == [op |-> "use", arg |-> n, ch |-> ""]

BindOp(n) == [op |-> "bind", arg |-> n, ch |-> ""]

\* the built-ins a program uses by name, other than print
TriedNames == {"open", "len"}

\* the global names a program binds
BoundNames == {"x"}

\* the things the deterministic programs are made of
ProgramOps ==
    {WriteOp("stdout", "a")} \cup {UseOp(n) : n \in TriedNames}
        \cup {BindOp(n) : n \in BoundNames}

Endings == {"ok", "exception", "base_exception"}

(***************************************************************************)
(* Strings                                                                 *)
(***************************************************************************)
IsSpace(ch) == ch \in {" ", "\n", "\t"}

\* the characters of a written sequence
Str(w) == [k \in 1..Len(w) |-> w[k].ch]

RECURSIVE LeadingSpaces(_)
LeadingSpaces(s) ==
    IF s # <<>> /\ IsSpace(Head(s)) THEN 1 + LeadingSpaces(Tail(s)) ELSE 0

RECURSIVE TrailingSpaces(_)
TrailingSpaces(s) ==
    IF s # <<>> /\ IsSpace(s[Len(s)])
    THEN 1 + TrailingSpaces(SubSeq(s, 1, Len(s) - 1))
    ELSE 0

\* str.strip(): surrounding whitespace removed, the inside kept
Strip(s) ==
    IF LeadingSpaces(s) = Len(s) THEN <<>>
    ELSE SubSeq(s, LeadingSpaces(s) + 1, Len(s) - TrailingSpaces(s))

\* str.strip() of a written sequence, each character keeping its writer
StripW(w) ==
    IF LeadingSpaces(Str(w)) = Len(w) THEN <<>>
    ELSE SubSeq(w, LeadingSpaces(Str(w)) + 1, Len(w) - TrailingSpaces(Str(w)))

(***************************************************************************)
(* Inputs                                                                  *)
(***************************************************************************)
USER_CODE == <<"CODE">>

FUNCTION_NAME == <<"f">>

\* a test case is a dict; the empty dict has neither key
TestCaseSet ==
    { [input |-> <<"5">>, expected_output |-> <<" ", "a", " ">>],
      <<>> }

RECURSIVE SeqsUpTo(_, _)
SeqsUpTo(S, n) ==
    IF n = 0 THEN {<<>>}
    ELSE LET shorter == SeqsUpTo(S, n - 1)
         IN  shorter \cup {Append(q, x) : q \in {r \in shorter : Len(r) = n - 1}, x \in S}

\* arbitrary printing code
AnyCode == [ops |-> <<>>, end |-> "any"]

\* the deterministic programs: what every execution does, and how it ends
Programs == [ops : SeqsUpTo(ProgramOps, MaxWrites), end : Endings]

\* dict.get(key, "")
Get(tc, key) == IF key \in DOMAIN tc THEN tc[key] ELSE <<>>

TRACEBACK == <<"Traceback">>

\* a message that names another number of seconds than the join waited
TimeoutMessageOtherSeconds == <<"timeout", EXECUTION_TIMEOUT + 1>>

\* line 107: the message, which names EXECUTION_TIMEOUT
TimeoutMessage == <<"timeout", EXECUTION_TIMEOUT>>

NoResultMessage == <<"no result">>

(***************************************************************************)
(* Init                                                                    *)
(***************************************************************************)
Init ==
    /\ sys = [s \in StreamNames |-> 0]
    /\ buf = [c \in Execs |-> [s \in OutNames |-> <<>>]]
    /\ tpc = [c \in Execs |-> "new"]
    /\ old = [c \in Execs |-> [s \in StreamNames |-> 0]]
    /\ output = [c \in Execs |-> <<>>]
    /\ rq = [c \in Execs |-> <<>>]
    /\ outcome = [c \in Execs |-> "running"]
    /\ nwrites = [c \in Execs |-> 0]
    /\ ncalls = 0
    /\ hpc = "idle"
    /\ mode = "direct"
    /\ test_cases = <<>>
    /\ idx = 0
    /\ base = 0
    /\ results = <<>>
    /\ all_passed = TRUE
    /\ timer = 0
    /\ call = [c \in Execs |-> <<>>]
    /\ ret = [c \in Execs |-> <<>>]
    /\ waited = [c \in Execs |-> 0]
    /\ builtins = HostBuiltins
    /\ safe_builtins = [c \in Execs |-> {}]
    /\ ns = [g \in 0..MaxExecs |-> {}]
    /\ performed = {}
    /\ program \in {AnyCode} \cup Programs
    /\ daemon = [c \in Execs |-> FALSE]
    /\ func_name = FUNCTION_NAME
    /\ template = <<>>
    /\ checking = FALSE
    /\ report = <<>>


(***************************************************************************)
(* execute(): the thread of execution c (lines 45-95)                      *)
(***************************************************************************)
Alive(c) == tpc[c] \notin {"new", "dead"}

\* between installing its capture streams and restoring the saved ones
Redirecting(c) == tpc[c] \in {"exec", "geterr", "restore"}

\* lines 48-50: old_stdin = sys.stdin, old_stdout = sys.stdout, old_stderr = sys.stderr
SaveOld(c) ==
    /\ tpc[c] = "save"
    /\ old' = [old EXCEPT ![c] = sys]
    /\ tpc' = [tpc EXCEPT ![c] = "install"]
    /\ UNCHANGED <<quiz, daemon, sandbox, sys, buf, output, rq, outcome, nwrites, ncalls, hpc, mode, test_cases,
                   idx, base, results, all_passed, timer, call, ret, waited>>

\* the streams execution c makes: StringIO(input_data), stdout_capture, stderr_capture
Capture(c) == [s \in StreamNames |-> c]

\* the dangerous functions but open
DangerousButOpen ==
    {"eval", "exec", "compile", "__import__", "globals", "locals", "vars",
     "dir", "getattr", "setattr", "delattr", "hasattr", "exit", "quit"}

\* lines 73-74: the names the for loop pops
Popped == DangerousFunctions

\* lines 64, 73-74: safe_builtins, a copy of the built-in table without the popped names
SafeBuiltins(table) == table \ Popped

\* safe_builtins = __builtins__: the pops are made in the host's table
PopFromHostTable(table) == table \ Popped

\* lines 64, 73-74: the pops are made in the copy, the host's table keeps its names
HostTableAfterPop(table) == table

\* one globals dict for every execution
SharedGlobals(c) == 0

\* line 77: exec_globals, a new dict made by execution c
ExecGlobals(c) == c

\* lines 54-60: sys.stdin = StringIO(input_data), sys.stdout = stdout_capture,
\* sys.stderr = stderr_capture
\* and lines 64-77, which build the namespace of the snippet
Install(c) ==
    /\ tpc[c] = "install"
    /\ sys' = Capture(c)
    /\ safe_builtins' = [safe_builtins EXCEPT ![c] = SafeBuiltins(builtins)]
    /\ builtins' = HostTableAfterPop(builtins)
    /\ tpc' = [tpc EXCEPT ![c] = "exec"]
    /\ UNCHANGED <<quiz, daemon, ns, performed, program, buf, old, output, rq, outcome, nwrites, ncalls, hpc, mode, test_cases,
                   idx, base, results, all_passed, timer, call, ret, waited>>

\* execution c will still call getvalue() on its capture buffer of kind s; what is
\* written to the host's streams, or to a buffer that is not read again, is not kept
Readable(c, s) ==
    /\ c \in Execs
    /\ tpc[c] = "exec" \/ (tpc[c] = "geterr" /\ s = "stderr")

NoBuf == [s \in OutNames |-> <<>>]

\* line 78, exec(code): the snippet prints one character; print looks sys.stdout
\* (or sys.stderr) up when it is called
\* the code under test does o as the next thing of execution c
MayDo(c, o) ==
    IF program.end = "any" THEN o.op = "write"
    ELSE nwrites[c] < Len(program.ops) /\ program.ops[nwrites[c] + 1] = o

\* the code under test ends execution c in the way e
MayEnd(c, e) ==
    program.end = "any" \/ (nwrites[c] = Len(program.ops) /\ program.end = e)

SnippetWrite(c, s, ch) ==
    /\ tpc[c] = "exec"
    /\ nwrites[c] < MaxWrites
    /\ MayDo(c, WriteOp(s, ch))
    /\ "print" \in safe_builtins[c]
    /\ nwrites' = [nwrites EXCEPT ![c] = @ + 1]
    /\ buf' = IF Readable(sys[s], s)
              THEN [buf EXCEPT ![sys[s]][s] = Append(@, [w |-> c, ch |-> ch])]
              ELSE buf
    /\ UNCHANGED <<quiz, daemon, sandbox, sys, tpc, old, output, rq, outcome, ncalls, hpc, mode, test_cases,
                   idx, base, results, all_passed, timer, call, ret, waited>>

\* line 78, exec(code): the snippet uses the built-in n by its name; the name is
\* looked up in safe_builtins, and the use raises NameError inside the snippet when
\* it is not there (the snippet may catch the NameError and go on, or let it out)
SnippetUses(c, n) ==
    /\ tpc[c] = "exec"
    /\ nwrites[c] < MaxWrites
    /\ MayDo(c, UseOp(n))
    /\ nwrites' = [nwrites EXCEPT ![c] = @ + 1]
    /\ performed' = IF n \in safe_builtins[c] THEN performed \cup {<<c, n>>}
                    ELSE performed
    /\ UNCHANGED <<quiz, daemon, builtins, safe_builtins, ns, program, sys, buf, tpc, old, output, rq, outcome,
                   ncalls, hpc, mode, test_cases, idx, base, results, all_passed,
                   timer, call, ret, waited>>

\* line 78, exec(code, exec_globals): the snippet binds the global name n
SnippetBinds(c, n) ==
    /\ tpc[c] = "exec"
    /\ nwrites[c] < MaxWrites
    /\ MayDo(c, BindOp(n))
    /\ nwrites' = [nwrites EXCEPT ![c] = @ + 1]
    /\ ns' = [ns EXCEPT ![ExecGlobals(c)] = @ \cup {[name |-> n, by |-> c]}]
    /\ UNCHANGED <<quiz, daemon, builtins, safe_builtins, performed, program, sys, buf, tpc, old, output, rq, outcome,
                   ncalls, hpc, mode, test_cases, idx, base, results, all_passed,
                   timer, call, ret, waited>>

\* the result is not put
PutLost(q, item) == q

\* lines 84, 89: result_queue.put(item)
QueueAfterPut(q, item) == Append(q, item)

\* lines 78-81: exec(code) returns; output = stdout_capture.getvalue()
ExecReturns(c) ==
    /\ tpc[c] = "exec"
    /\ MayEnd(c, "ok")
    /\ outcome' = [outcome EXCEPT ![c] = "ok"]
    /\ output' = [output EXCEPT ![c] = buf[c]["stdout"]]
    /\ buf' = [buf EXCEPT ![c]["stdout"] = <<>>]
    /\ tpc' = [tpc EXCEPT ![c] = "geterr"]
    /\ nwrites' = [nwrites EXCEPT ![c] = 0]
    /\ UNCHANGED <<quiz, daemon, sandbox, sys, old, rq, ncalls, hpc, mode, test_cases,
                   idx, base, results, all_passed, timer, call, ret, waited>>

\* lines 82-84: error = stderr_capture.getvalue(); result_queue.put((True, output.strip(), error.strip()))
PutResult(c) ==
    /\ tpc[c] = "geterr"
    /\ rq' = [rq EXCEPT ![c] =
                  QueueAfterPut(@, [succeeded |-> TRUE,
                                    stdout |-> StripW(output[c]),
                                    stderr |-> StripW(buf[c]["stderr"])])]
    /\ output' = [output EXCEPT ![c] = <<>>]
    /\ buf' = [buf EXCEPT ![c] = NoBuf]
    /\ tpc' = [tpc EXCEPT ![c] = "restore"]
    /\ UNCHANGED <<quiz, daemon, sandbox, sys, old, outcome, nwrites, ncalls, hpc, mode, test_cases,
                   idx, base, results, all_passed, timer, call, ret, waited>>

\* result_queue.put((False, stdout_capture.getvalue().strip(), error_msg))
ExceptionResultWithOutput(c) ==
    [succeeded |-> FALSE, stdout |-> StripW(buf[c]["stdout"]), stderr |-> TRACEBACK]

\* lines 88-89: (False, "", error_msg), error_msg being traceback.format_exc()
ExceptionResult(c) == [succeeded |-> FALSE, stdout |-> <<>>, stderr |-> TRACEBACK]

\* lines 78, 86-89: exec(code) raises an Exception; result_queue.put((False, "", traceback.format_exc()))
ExecRaises(c) ==
    /\ tpc[c] = "exec"
    /\ MayEnd(c, "exception")
    /\ outcome' = [outcome EXCEPT ![c] = "exception"]
    /\ rq' = [rq EXCEPT ![c] = QueueAfterPut(@, ExceptionResult(c))]
    /\ buf' = [buf EXCEPT ![c] = NoBuf]
    /\ tpc' = [tpc EXCEPT ![c] = "restore"]
    /\ nwrites' = [nwrites EXCEPT ![c] = 0]
    /\ UNCHANGED <<quiz, daemon, sandbox, sys, old, output, ncalls, hpc, mode, test_cases,
                   idx, base, results, all_passed, timer, call, ret, waited>>

\* lines 78, 86: exec(code) raises a BaseException that "except Exception" does not
\* catch (SystemExit, KeyboardInterrupt, GeneratorExit): nothing is put
ExecRaisesBase(c) ==
    /\ tpc[c] = "exec"
    /\ MayEnd(c, "base_exception")
    /\ outcome' = [outcome EXCEPT ![c] = "base_exception"]
    /\ buf' = [buf EXCEPT ![c] = NoBuf]
    /\ tpc' = [tpc EXCEPT ![c] = "restore"]
    /\ nwrites' = [nwrites EXCEPT ![c] = 0]
    /\ UNCHANGED <<quiz, daemon, sandbox, sys, old, output, rq, ncalls, hpc, mode, test_cases,
                   idx, base, results, all_passed, timer, call, ret, waited>>

\* no finally block: the streams stay as they are
KeepStreams(c) == sys

\* lines 93-95: what the finally block assigns to sys.stdin, sys.stdout, sys.stderr
RestoreValue(c) == old[c]

\* lines 91-95: finally: sys.stdin = old_stdin, sys.stdout = old_stdout, sys.stderr = old_stderr
Restore(c) ==
    /\ tpc[c] = "restore"
    /\ sys' = RestoreValue(c)
    /\ tpc' = [tpc EXCEPT ![c] = "exit"]
    /\ UNCHANGED <<quiz, daemon, sandbox, buf, old, output, rq, outcome, nwrites, ncalls, hpc, mode, test_cases,
                   idx, base, results, all_passed, timer, call, ret, waited>>

\* execute() has returned and the thread ends: is_alive() is False from here on
ThreadExit(c) ==
    /\ tpc[c] = "exit"
    /\ tpc' = [tpc EXCEPT ![c] = "dead"]
    /\ old' = [old EXCEPT ![c] = [s \in StreamNames |-> 0]]
    /\ UNCHANGED <<quiz, daemon, sandbox, sys, buf, output, rq, outcome, nwrites, ncalls, hpc, mode, test_cases,
                   idx, base, results, all_passed, timer, call, ret, waited>>

(***************************************************************************)
(* run_python_code: the caller's side (lines 42-43, 97-113)                *)
(***************************************************************************)
\* the call the foreground caller is in
Cur == ncalls

\* join without a timeout: thread.join()
JoinWithoutTimeout(c) == ~Alive(c)

\* a join that does not wait: thread.join(0)
JoinWithoutWaiting(c) == TRUE

\* line 103, thread.join(timeout=EXECUTION_TIMEOUT): returns once the thread has
\* ended or the timeout has elapsed
JoinMayReturn(c) == ~Alive(c) \/ timer >= EXECUTION_TIMEOUT

\* a timeout result without a message
TimeoutResultNoMessage == [succeeded |-> FALSE, stdout |-> <<>>, stderr |-> <<>>]

\* line 107: the result of a call whose thread is still alive after the join
TimeoutResult == [succeeded |-> FALSE, stdout |-> <<>>, stderr |-> TimeoutMessage]

\* line 111, queue.get_nowait(): the first item, or queue.Empty raised
GetNowait(q) ==
    IF q # <<>> THEN [raised |-> FALSE, value |-> Head(q)]
    ELSE [raised |-> TRUE, value |-> "queue.Empty"]

\* queue.Empty left uncaught
OnQueueEmptyUncaught == [raised |-> TRUE, value |-> "queue.Empty"]

\* lines 112-113: except queue.Empty: return (False, "", "...")
OnQueueEmpty ==
    [raised |-> FALSE,
     value |-> [succeeded |-> FALSE, stdout |-> <<>>, stderr |-> NoResultMessage]]

\* the thread is ended when its join has timed out
KilledAfterTimeout(c) == "dead"

\* lines 105-107: the timeout path returns and does nothing to the thread, which
\* stays where it is
ThreadAfterTimeout(c) == tpc[c]

\* the queue is looked at first, the thread only when the queue is empty
AfterJoinQueueFirst(c) ==
    IF ~GetNowait(rq[c]).raised THEN GetNowait(rq[c])
    ELSE IF Alive(c) THEN [raised |-> FALSE, value |-> TimeoutResult]
    ELSE OnQueueEmpty

\* lines 105-113: what run_python_code does after the join
AfterJoin(c) ==
    IF Alive(c) THEN [raised |-> FALSE, value |-> TimeoutResult]
    ELSE IF GetNowait(rq[c]).raised THEN OnQueueEmpty
    ELSE GetNowait(rq[c])

(***************************************************************************)
(* validate_test_cases (lines 142-167), run_code_with_function (185-219)   *)
(***************************************************************************)
\* lines 146, 189: input_data = tc.get("input", "")
InputData(tc) == Get(tc, "input")

\* lines 147, 190: expected = tc.get("expected_output", "").strip()
Expected(tc) == Strip(Get(tc, "expected_output"))

\* lines 193-199: the user's code followed by a printed call of the function
TestCode(code, function_name, input_data) ==
    <<"\n">> \o code \o <<"\n", "\n", "#", "\n", "result = ">> \o function_name
        \o <<"(">> \o input_data \o <<")", "\n", "print(result)", "\n">>

\* the synthesized code handed over in both modes
CallCodeSynthesized(m, tc) == TestCode(USER_CODE, FUNCTION_NAME, InputData(tc))

\* lines 150, 202: the code handed to run_python_code
CallCode(m, tc) ==
    IF m = "direct" THEN USER_CODE ELSE TestCode(USER_CODE, func_name, InputData(tc))

\* run_python_code(test_code, input_data)
CallInputFromCase(m, tc) == InputData(tc)

\* lines 150, 202: the input_data handed to run_python_code (its default is "")
CallInput(m, tc) == IF m = "direct" THEN InputData(tc) ELSE <<>>

\* "input": input_data in both modes
VerdictInputRaw(m, tc) == InputData(tc)

\* lines 161, 213: the verdict's "input"
VerdictInput(m, tc) ==
    IF m = "direct" THEN InputData(tc)
    ELSE func_name \o <<"(">> \o InputData(tc) \o <<")">>

\* passed = (actual == expected)
PassedOnOutputAlone(success, actual, expected) == Str(actual) = expected

\* lines 154, 206: passed = success and (actual == expected)
Passed(success, actual, expected) == success /\ (Str(actual) = expected)

\* "error": error
VerdictErrorAlways(r) == r.stderr

\* lines 164, 216: "error": error if not success else ""
VerdictError(r) == IF ~r.succeeded THEN r.stderr ELSE <<>>

\* lines 153-165, 205-217: the verdict of one test case
Verdict(m, tc, r) ==
    [passed |-> Passed(r.succeeded, StripW(r.stdout), Expected(tc)),
     input |-> VerdictInput(m, tc),
     expected_output |-> Expected(tc),
     actual_output |-> StripW(r.stdout),
     error |-> VerdictError(r)]

\* all_passed = passed
AllPassedIsLast(ap, passed) == passed

\* lines 156-157, 208-209: if not passed: all_passed = False
AllPassedAfter(ap, passed) == IF ~passed THEN FALSE ELSE ap

\* results.insert(0, ...)
InsertVerdictFirst(rs, v) == <<v>> \o rs

\* lines 159, 211: results.append(...)
AppendVerdict(rs, v) == Append(rs, v)

\* the loop also ends at the first test case that did not pass
LoopDoneOrFailed == idx >= Len(test_cases) \/ ~all_passed

\* lines 145, 188: the for loop has taken every test case
LoopDone == idx >= Len(test_cases)

\* all_passed = False
AllPassedStartsFalse == FALSE

\* lines 143, 186: all_passed = True
AllPassedAtStart == TRUE

\* validate_test_cases(code, tcs) or run_code_with_function(code, fn, tcs) begins
\* (lines 142-143, 185-186)
HarnessBegins(m, fn, tcs) ==
    /\ hpc = "idle"
    /\ ncalls + Len(tcs) <= MaxExecs
    /\ mode' = m
    /\ func_name' = fn
    /\ test_cases' = tcs
    /\ idx' = 0
    /\ base' = ncalls
    /\ results' = <<>>
    /\ all_passed' = AllPassedAtStart
    /\ hpc' = "loop"
    /\ UNCHANGED <<daemon, sandbox, sys, buf, tpc, old, output, rq, outcome, nwrites, ncalls,
                   timer, call, ret, waited>>

\* a harness call made by any caller, the function being f
HarnessCall(m, tcs) ==
    /\ HarnessBegins(m, FUNCTION_NAME, tcs)
    /\ UNCHANGED <<template, checking, report>>

\* the thread is started as it was made, not a daemon
NotDaemonAtStart == FALSE

\* lines 98-100: thread.daemon = True comes before thread.start()
DaemonAtStart == TRUE

\* one timeout for the whole harness call: the clock is not set back
TimerCarriedOver == timer

\* line 103: every join is given the whole EXECUTION_TIMEOUT, the clock of the
\* wait starts at zero
TimerAtStart == 0

\* lines 145-150 (188-202) and 42-100: the loop takes the next test case and calls
\* run_python_code, which makes its queue and starts its thread
StartCase ==
    /\ hpc = "loop"
    /\ ~LoopDone
    /\ idx' = idx + 1
    /\ ncalls' = ncalls + 1
    /\ call' = [call EXCEPT ![ncalls + 1] =
                    [code |-> CallCode(mode, test_cases[idx + 1]),
                     input_data |-> CallInput(mode, test_cases[idx + 1]),
                     entry |-> sys,
                     inflight |-> {c \in Execs : Alive(c)}]]
    /\ daemon' = [daemon EXCEPT ![ncalls + 1] = DaemonAtStart]
    /\ tpc' = [tpc EXCEPT ![ncalls + 1] = "save"]
    /\ timer' = TimerAtStart
    /\ hpc' = "join"
    /\ UNCHANGED <<quiz, sandbox, sys, buf, old, output, rq, outcome, nwrites, mode,
                   test_cases, base, results, all_passed, ret, waited>>

\* EXECUTION_TIMEOUT seconds have passed while the caller waits in join
Tick ==
    /\ hpc = "join"
    /\ Alive(Cur)
    /\ timer < EXECUTION_TIMEOUT
    /\ timer' = EXECUTION_TIMEOUT
    /\ waited' = [waited EXCEPT ![Cur] = @ + EXECUTION_TIMEOUT]
    /\ UNCHANGED <<quiz, daemon, sandbox, sys, buf, tpc, old, output, rq, outcome, nwrites, ncalls, hpc, mode,
                   test_cases, idx, base, results, all_passed, call, ret>>

\* line 103: thread.join(timeout=EXECUTION_TIMEOUT) returns
JoinReturns ==
    /\ hpc = "join"
    /\ JoinMayReturn(Cur)
    /\ hpc' = "check"
    /\ UNCHANGED <<quiz, daemon, sandbox, sys, buf, tpc, old, output, rq, outcome, nwrites, ncalls, mode,
                   test_cases, idx, base, results, all_passed, timer, call, ret, waited>>

\* lines 105-113: run_python_code returns (or raises) to the harness
CallReturns ==
    /\ hpc = "check"
    /\ IF AfterJoin(Cur).raised
       THEN /\ hpc' = "raised"
            /\ UNCHANGED ret
       ELSE /\ hpc' = "ret"
            /\ ret' = [ret EXCEPT ![Cur] = <<AfterJoin(Cur).value>>]
    /\ rq' = [rq EXCEPT ![Cur] = IF Alive(Cur) \/ @ = <<>> THEN @ ELSE Tail(@)]
    /\ tpc' = [tpc EXCEPT ![Cur] = IF Alive(Cur) THEN ThreadAfterTimeout(Cur) ELSE @]
    /\ UNCHANGED <<quiz, daemon, sandbox, sys, buf, old, output, outcome, nwrites, ncalls, mode,
                   test_cases, idx, base, results, all_passed, timer, call, waited>>

\* lines 153-165 (205-217): the verdict is computed and appended
RecordVerdict ==
    /\ hpc = "ret"
    /\ LET v == Verdict(mode, test_cases[idx], ret[Cur][1])
       IN  /\ results' = AppendVerdict(results, v)
           /\ all_passed' = AllPassedAfter(all_passed, v.passed)
    /\ hpc' = "loop"
    /\ UNCHANGED <<quiz, daemon, sandbox, sys, buf, tpc, old, output, rq, outcome, nwrites, ncalls, mode,
                   test_cases, idx, base, timer, call, ret, waited>>

\* lines 167, 219: return (all_passed, results)
HarnessReturn ==
    /\ hpc = "loop"
    /\ LoopDone
    /\ hpc' = "done"
    /\ UNCHANGED <<quiz, daemon, sandbox, sys, buf, tpc, old, output, rq, outcome, nwrites, ncalls, mode,
                   test_cases, idx, base, results, all_passed, timer, call, ret, waited>>

(***************************************************************************)
(* QuizController._check_coding_answer (quiz_controller.py, lines 239-274)  *)
(***************************************************************************)
\* the characters that \w matches, among those that occur in the templates
WordChars ==
    {"a", "b", "c", "d", "e", "f", "g", "h", "i", "j", "k", "l", "m", "n", "o", "p", "q",
     "r", "s", "t", "u", "v", "w", "x", "y", "z", "_", "0", "1", "2", "3", "4", "5", "6",
     "7", "8", "9"}

\* the position after the longest run of \w characters that begins at k
RECURSIVE WordEnd(_, _)
WordEnd(s, k) == IF k <= Len(s) /\ s[k] \in WordChars THEN WordEnd(s, k + 1) ELSE k

\* the position after the longest run of \s characters that begins at k
RECURSIVE SpaceEnd(_, _)
SpaceEnd(s, k) == IF k <= Len(s) /\ IsSpace(s[k]) THEN SpaceEnd(s, k + 1) ELSE k

\* line 252: the pattern def\s+(\w+) matches at position k, wherever k is
MatchAt(s, k) ==
    /\ k + 2 <= Len(s)
    /\ s[k] = "d" /\ s[k + 1] = "e" /\ s[k + 2] = "f"
    /\ SpaceEnd(s, k + 3) > k + 3
    /\ WordEnd(s, SpaceEnd(s, k + 3)) > SpaceEnd(s, k + 3)

\* line 254: func_match.group(1) of the match at position k
Group1(s, k) == SubSeq(s, SpaceEnd(s, k + 3), WordEnd(s, SpaceEnd(s, k + 3)) - 1)

\* line 252: re.search(r"def\s+(\w+)", s): <<>> for None, else the group of the
\* leftmost match
ReSearch(s) ==
    LET ks == {k \in 1..Len(s) : MatchAt(s, k)}
    IN  IF ks = {} THEN <<>>
        ELSE <<Group1(s, CHOOSE k \in ks : \A j \in ks : k <= j)>>

\* question.code_template: the default "" (models/question.py, line 286), a
\* template with one function, one with two, and one with none whose comment
\* holds the word def
NoTemplate == <<>>

TemplateF == <<"d", "e", "f", " ", "f", "(", "x", ")", ":", "\n", " ", "p", "a", "s", "s">>

TemplateGF ==
    <<"d", "e", "f", " ", "g", "(", ")", ":", "\n", " ", "p", "a", "s", "s", "\n">>
        \o TemplateF

TemplateComment == <<"#", " ", "n", "o", " ", "d", "e", "f", " ", "h", "e", "r", "e">>

Templates == {NoTemplate, TemplateF, TemplateGF, TemplateComment}

\* line 263: the line that numbers test case i and tells its status
\* ("passed" for the check mark text, "failed" for the cross text)
CaseLine(i, r) ==
    [label |-> "case", no |-> i, value |-> IF r["passed"] THEN "passed" ELSE "failed"]

\* a detail line
DetailLine(key, r) == [label |-> key, no |-> 0, value |-> r[key]]

\* lines 262-270: the lines of one verdict
LinesOfCase(i, r) ==
    <<CaseLine(i, r)>>
        \o (IF ~r["passed"]
            THEN <<DetailLine("input", r), DetailLine("expected_output", r),
                   DetailLine("actual_output", r)>>
                     \o (IF r["error"] # <<>> THEN <<DetailLine("error", r)>> ELSE <<>>)
            ELSE <<>>)

\* lines 260-270: for i, r in enumerate(results, 1): the lines of verdicts i..
RECURSIVE ResultLines(_, _)
ResultLines(rs, i) ==
    IF i > Len(rs) THEN <<>>
    ELSE LinesOfCase(i, rs[i]) \o ResultLines(rs, i + 1)

\* line 272: the first component of the returned tuple
IsCorrect(ap, rs) == ap

\* lines 252-258: the harness call of an answer check
CheckCodingAnswer(tpl, tcs) ==
    /\ ~checking
    /\ LET func_match == ReSearch(tpl)
       IN  IF func_match # <<>>
           THEN HarnessBegins("function", func_match[1], tcs)
           ELSE HarnessBegins("direct", func_name, tcs)
    /\ template' = tpl
    /\ checking' = TRUE
    /\ UNCHANGED report

\* lines 260-272: the harness has returned; the report is built and returned
ReportAnswer ==
    /\ checking
    /\ hpc = "done"
    /\ report = <<>>
    /\ report' = <<[is_correct |-> IsCorrect(all_passed, results),
                   lines |-> ResultLines(results, 1)]>>
    /\ UNCHANGED <<func_name, template, checking, daemon, sandbox, sys, buf, tpc, old, output,
                   rq, outcome, nwrites, ncalls, hpc, mode, test_cases, idx, base, results,
                   all_passed, timer, call, ret, waited>>

(***************************************************************************)
(* Specifications                                                          *)
(***************************************************************************)
ThreadStep ==
    \E c \in Execs :
        \/ SaveOld(c)
        \/ Install(c)
        \/ \E s \in OutNames, ch \in Chars : SnippetWrite(c, s, ch)
        \/ \E n \in TriedNames : SnippetUses(c, n)
        \/ \E n \in BoundNames : SnippetBinds(c, n)
        \/ ExecReturns(c)
        \/ PutResult(c)
        \/ ExecRaises(c)
        \/ ExecRaisesBase(c)
        \/ Restore(c)
        \/ ThreadExit(c)

CallerStep ==
    \/ StartCase
    \/ Tick
    \/ JoinReturns
    \/ CallReturns
    \/ RecordVerdict
    \/ HarnessReturn

Next ==
    \/ \E m \in {"direct", "function"}, tcs \in SeqsUpTo(TestCaseSet, MaxExecs) :
           HarnessCall(m, tcs)
    \/ CallerStep
    \/ ThreadStep

Spec == Init /\ [][Next]_vars

\* the foreground caller keeps running and the clock keeps advancing; nothing
\* makes a snippet end
LiveSpec == Spec /\ WF_vars(CallerStep)

\* the program as the quiz controller drives it: every harness call is made by
\* an answer check
QuizNext ==
    \/ \E tpl \in Templates, tcs \in SeqsUpTo(TestCaseSet, MaxExecs) :
           CheckCodingAnswer(tpl, tcs)
    \/ CallerStep
    \/ ThreadStep
    \/ ReportAnswer

QuizSpec == Init /\ [][QuizNext]_vars

(***************************************************************************)
(* Claims                                                                  *)
(***************************************************************************)
Returned(c) == ret[c] # <<>>

\* the run_python_code call made for test case i of the harness call
CallOf(i) == base + i

\* C1: whenever run_python_code returns, sys.stdin, sys.stdout and sys.stderr are
\* the streams that were installed when the call began.
C1_StreamsRestoredAtReturn == [][CallReturns => sys = call[Cur].entry]_vars

\* C2: at most one execution is between installing its capture buffers and
\* restoring the saved streams.
C2_OneRedirectionActive == Cardinality({c \in Execs : Redirecting(c)}) <= 1

\* C3: a call that waits in join always eventually returns, and when its thread
\* is still running it has returned succeeded = False.
C3_CallEventuallyReturns ==
    /\ (hpc = "join") ~> (hpc = "ret")
    /\ [](hpc = "ret" /\ Alive(Cur) => ~ret[Cur][1].succeeded)

C3_Witness == hpc = "ret" /\ Alive(Cur) /\ outcome[Cur] = "running"

\* C4: run_python_code never raises to its caller, and every returned result whose
\* snippet did not complete normally (Exception, BaseException, still running) has
\* succeeded = False.
C4_NeverRaises ==
    /\ hpc # "raised"
    /\ \A c \in Execs :
           Returned(c) =>
               /\ ret[c][1].succeeded \in BOOLEAN
               /\ outcome[c] # "ok" => ~ret[c][1].succeeded

C4_Witness ==
    \E c \in Execs :
        /\ Returned(c)
        /\ outcome[c] = "base_exception"
        /\ ~ret[c][1].succeeded
        /\ ret[c][1].stderr = NoResultMessage

\* C5: the stdout a call returns holds only characters written by that call's own
\* snippet.
C5_NoLeakIntoStdout ==
    \A c \in Execs :
        Returned(c) =>
            \A k \in DOMAIN ret[c][1].stdout : ret[c][1].stdout[k].w = c

\* C6 (as claimed): at most one execution thread is running at any time.
C6_OneExecutionRunning == Cardinality({c \in Execs : Alive(c)}) <= 1

\* C6 (amended): every running thread other than that of the call in progress
\* belongs to a call that waited the whole EXECUTION_TIMEOUT in join and returned
\* succeeded = False: a thread is started only after the one before it has ended or
\* has been abandoned as timed out.
C6_OneUnabandonedExecution ==
    \A c \in Execs :
        Alive(c) /\ ~(c = Cur /\ hpc \in {"join", "check"}) =>
            /\ Returned(c)
            /\ ~ret[c][1].succeeded
            /\ waited[c] = EXECUTION_TIMEOUT

C6_Witness == \E c \in Execs : c # Cur /\ Alive(c) /\ Alive(Cur)

\* the report is complete: one verdict and one finished call per test case
ReportComplete ==
    /\ hpc = "done"
    /\ Len(results) = Len(test_cases)
    /\ ncalls = base + Len(test_cases)
    /\ \A i \in 1..Len(test_cases) : Returned(CallOf(i))

\* C7: a harness call always eventually returns a complete report, whatever the
\* outcomes of its cases: a fault or timeout in one case does not end the loop.
C7_HarnessEventuallyReports == (hpc \notin {"idle", "done"}) ~> ReportComplete

C7_Witness ==
    /\ ReportComplete
    /\ Len(results) = 2
    /\ ~ret[CallOf(1)][1].succeeded
    /\ ret[CallOf(2)][1].succeeded

\* C8: the verdict sequence has one verdict per test case taken so far (per
\* supplied test case once the harness has returned), and the i-th verdict is
\* that of the i-th test case and of the i-th call.
C8_VerdictsInOrder ==
    /\ Len(results) <= Len(test_cases)
    /\ hpc = "done" => Len(results) = Len(test_cases)
    /\ hpc \in {"loop", "done"} => Len(results) = idx
    /\ \A i \in 1..Len(results) :
           /\ Returned(CallOf(i))
           /\ results[i].input = VerdictInput(mode, test_cases[i])
           /\ results[i].expected_output = Strip(Get(test_cases[i], "expected_output"))
           /\ results[i].actual_output = StripW(ret[CallOf(i)][1].stdout)
           /\ results[i].error # <<>> <=> ~ret[CallOf(i)][1].succeeded

C8_Witness ==
    /\ hpc = "done"
    /\ Len(results) = 2
    /\ test_cases[1] = test_cases[2]
    /\ results[1].passed
    /\ ~results[2].passed

\* C9: a verdict has passed = True exactly when its run succeeded and the trimmed
\* stdout equals the trimmed expected_output.
C9_PassedIffSucceededAndEqual ==
    \A i \in 1..Len(results) :
        results[i].passed <=>
            /\ ret[CallOf(i)][1].succeeded
            /\ Str(StripW(ret[CallOf(i)][1].stdout))
                   = Strip(Get(test_cases[i], "expected_output"))

C9_Witness ==
    \E i \in 1..Len(results) :
        /\ ~ret[CallOf(i)][1].succeeded
        /\ Strip(Get(test_cases[i], "expected_output")) = <<>>
        /\ results[i].actual_output = <<>>
        /\ ~results[i].passed

\* C10: all_passed is True exactly when every verdict has passed = True.
C10_AllPassedIsConjunction ==
    all_passed <=> \A i \in 1..Len(results) : results[i].passed

C10_Witness ==
    /\ hpc = "done"
    /\ Len(results) = 2
    /\ ~results[1].passed
    /\ results[2].passed
    /\ ~all_passed

\* C11: for an empty list of test cases the harness returns all_passed = true and
\* an empty list of verdicts, has started no execution, and has left sys.stdin,
\* sys.stdout and sys.stderr as they were
C11_EmptyListReport ==
    (hpc = "done" /\ test_cases = <<>>) =>
        /\ all_passed
        /\ results = <<>>
        /\ ncalls = base
        /\ \A c \in Execs : c > base => tpc[c] = "new" /\ call[c] = <<>>
        /\ sys = [s \in StreamNames |-> 0]

C11_Witness == hpc = "done" /\ test_cases = <<>> /\ mode = "function"

\* C12: in every verdict the error field is non-empty only when the run did not
\* succeed; a verdict with passed = true has error = "", and a run that succeeded
\* has error = "" whatever its snippet wrote to the error stream
C12_ErrorOnlyOnFailure ==
    \A i \in 1..Len(results) :
        LET v == results[i]
            r == ret[CallOf(i)][1]
        IN  /\ v.error # <<>> => ~r.succeeded
            /\ v.passed => v.error = <<>>
            /\ r.succeeded => v.error = <<>>

\* a run that succeeded with text on its error stream and the wrong output
C12_Witness ==
    \E i \in 1..Len(results) :
        /\ ret[CallOf(i)][1].succeeded
        /\ ret[CallOf(i)][1].stderr # <<>>
        /\ ~results[i].passed
        /\ results[i].error = <<>>

\* C13: when the snippet raises an Exception, run_python_code returns
\* succeeded = false, an empty stdout (what the snippet printed before is
\* dropped) and the traceback text of the exception; only a call that had waited
\* the whole timeout may return the timeout message in its place
C13_RaiseYieldsTraceback ==
    \A c \in Execs :
        (Returned(c) /\ outcome[c] = "exception") =>
            /\ ~ret[c][1].succeeded
            /\ ret[c][1].stdout = <<>>
            /\ ret[c][1].stderr # <<>>
            /\ \/ ret[c][1].stderr = TRACEBACK
               \/ waited[c] = EXECUTION_TIMEOUT /\ ret[c][1].stderr = TimeoutMessage

\* a program that prints and then raises an Exception has returned its traceback
C13_Witness ==
    \E c \in Execs :
        /\ Returned(c)
        /\ outcome[c] = "exception"
        /\ program.end = "exception"
        /\ program.ops = <<WriteOp("stdout", "a")>>
        /\ ret[c][1].stderr = TRACEBACK
        /\ waited[c] < EXECUTION_TIMEOUT

\* C14: a call whose snippet was still running when the call returned has
\* returned succeeded = false, an empty stdout and the timeout message, which
\* names the seconds the call waited, and they are EXECUTION_TIMEOUT
C14_TimeoutResult ==
    \A c \in Execs :
        (Returned(c) /\ outcome[c] = "running") =>
            /\ ret[c][1] = [succeeded |-> FALSE, stdout |-> <<>>,
                            stderr |-> <<"timeout", waited[c]>>]
            /\ waited[c] = EXECUTION_TIMEOUT

\* a snippet that had printed is still running after its call returned
C14_Witness ==
    \E c \in Execs :
        /\ Returned(c)
        /\ outcome[c] = "running"
        /\ nwrites[c] > 0
        /\ ret[c][1].stderr = TimeoutMessage

\* the characters a deterministic program prints to the stream s
ProgramWrites(s) ==
    LET w == SelectSeq(program.ops, LAMBDA o : o.op = "write" /\ o.arg = s)
    IN  [k \in 1..Len(w) |-> w[k].ch]

\* C15: a call of a program that ends normally, whose thread ended before the
\* timeout elapsed, returns succeeded = true with everything the program printed
\* to stdout and to stderr, each stripped
C15_ReturnsWhatWasWritten ==
    \A c \in Execs :
        (Returned(c) /\ program.end = "ok" /\ waited[c] < EXECUTION_TIMEOUT) =>
            /\ ret[c][1].succeeded
            /\ Str(ret[c][1].stdout) = Strip(ProgramWrites("stdout"))
            /\ Str(ret[c][1].stderr) = Strip(ProgramWrites("stderr"))

\* the built-ins C16 names
C16_Names ==
    {"eval", "exec", "compile", "open", "__import__", "globals", "locals", "vars",
     "dir", "getattr", "setattr", "delattr", "hasattr", "exit", "quit"}

\* the program uses one of them by its name
UsesBlocked == \E k \in 1..Len(program.ops) :
                   program.ops[k].op = "use" /\ program.ops[k].arg \in C16_Names

\* the namespace an execution that has reached exec(code) runs in has none of the
\* names, no snippet has found and used one, and the caller has not been ended
NoBlockedOperation ==
    /\ \A c \in Execs :
           tpc[c] \notin {"new", "save", "install"} =>
               safe_builtins[c] \cap C16_Names = {} /\ "print" \in safe_builtins[c]
    /\ \A p \in performed : p[2] \notin C16_Names
    /\ hpc # "raised"

\* C16 as stated: a snippet that uses a blocklisted built-in by name never has the
\* operation performed, the name is absent from its namespace, the host keeps
\* running, and its run ends with succeeded = false
C16_BlockedUseFails ==
    /\ NoBlockedOperation
    /\ \A c \in Execs : (Returned(c) /\ UsesBlocked) => ~ret[c][1].succeeded

\* C16 amended: the operation is never performed, the name is absent and the host
\* keeps running; the run has succeeded = true only if the snippet itself ended
\* normally, having caught the NameError of the use
C16_BlockedUseNotPerformed ==
    /\ NoBlockedOperation
    /\ \A c \in Execs :
           (Returned(c) /\ UsesBlocked /\ ret[c][1].succeeded) => program.end = "ok"

\* open was used and its NameError left the snippet: the traceback came back
C16_Witness ==
    \E c \in Execs :
        /\ Returned(c)
        /\ program.ops = <<UseOp("open")>>
        /\ outcome[c] = "exception"
        /\ ~ret[c][1].succeeded
        /\ ret[c][1].stderr = TRACEBACK
        /\ <<c, "open">> \notin performed

\* C17: every execution gets a fresh context: the globals dict it runs in holds
\* only names its own snippet bound, its capture buffers and its result queue
\* are its own (empty until it uses them, of no other execution, the queue
\* never holding more than its one result), and the host's built-in table keeps
\* every name
C17_FreshContext ==
    /\ \A c \in Execs : \A e \in ns[ExecGlobals(c)] : e.by = c
    /\ \A c, d \in Execs :
           c # d => /\ ExecGlobals(c) # ExecGlobals(d)
                    /\ \A s \in StreamNames : Capture(c)[s] # Capture(d)[s]
    /\ \A c \in Execs :
           /\ tpc[c] \in {"new", "save", "install"} => buf[c] = NoBuf /\ rq[c] = <<>>
           /\ Len(rq[c]) <= 1
    /\ builtins = HostBuiltins

\* two executions of a program that binds x have both bound it
C17_Witness ==
    /\ \A c \in Execs : ns[ExecGlobals(c)] = {[name |-> "x", by |-> c]}
    /\ \A c \in Execs : outcome[c] = "ok" /\ Returned(c)

\* C18: every test case has its own full timeout: a call returns the timeout
\* result only after EXECUTION_TIMEOUT seconds of its own join have passed, no
\* join waits longer than that, and the time earlier cases took does not count
C18_OwnTimeoutBudget ==
    \A c \in Execs :
        /\ waited[c] <= EXECUTION_TIMEOUT
        /\ (Returned(c) /\ ~ret[c][1].succeeded /\ ret[c][1].stderr = TimeoutMessage)
               => waited[c] = EXECUTION_TIMEOUT
        /\ (hpc = "join" /\ c = Cur /\ Alive(c) /\ waited[c] < EXECUTION_TIMEOUT)
               => ~JoinMayReturn(c)

\* a harness call over MaxExecs cases has waited MaxExecs times the timeout
C18_Witness ==
    /\ hpc = "done"
    /\ Len(test_cases) = MaxExecs
    /\ \A c \in Execs : /\ waited[c] = EXECUTION_TIMEOUT
                        /\ ~ret[c][1].succeeded
                        /\ ret[c][1].stderr = TimeoutMessage

\* what a call of the deterministic program returns when no other execution is
\* around and its thread ends before the timeout elapses
RunAlone ==
    [succeeded |-> program.end = "ok",
     stdout |-> IF program.end = "ok" THEN Strip(ProgramWrites("stdout")) ELSE <<>>]

\* the thread of call c ended before the timeout elapsed
InTime(c) == Returned(c) /\ waited[c] < EXECUTION_TIMEOUT

\* C19: calls that run the same deterministic program with the same input, and
\* whose threads end before the timeout elapses, return the same succeeded flag
\* and the same stdout, whatever other executions there were: the ones the
\* program yields when it is run alone
C19_SameRunSameResult ==
    program.end # "any" =>
        /\ \A c \in Execs :
               InTime(c) => /\ ret[c][1].succeeded = RunAlone.succeeded
                            /\ Str(ret[c][1].stdout) = RunAlone.stdout
        /\ \A c, d \in Execs :
               (/\ InTime(c) /\ InTime(d)
                /\ call[c].code = call[d].code
                /\ call[c].input_data = call[d].input_data)
               => /\ ret[c][1].succeeded = ret[d][1].succeeded
                  /\ Str(ret[c][1].stdout) = Str(ret[d][1].stdout)

\* C20: in function-call mode the harness has made exactly one call of
\* run_python_code for each test case it has taken, in order; its code is the
\* user's code followed by "result = f(<input of the case>)" and "print(result)",
\* and its input_data is empty
C20_FunctionModeCalls ==
    (mode = "function" /\ hpc # "idle") =>
        /\ ncalls = base + idx
        /\ hpc = "done" => idx = Len(test_cases)
        /\ \A c \in Execs : c > base + idx => call[c] = <<>>
        /\ \A i \in 1..idx :
               /\ call[CallOf(i)].input_data = <<>>
               /\ call[CallOf(i)].code =
                      <<"\n">> \o USER_CODE \o <<"\n", "\n", "#", "\n", "result = ">>
                          \o FUNCTION_NAME \o <<"(">> \o Get(test_cases[i], "input")
                          \o <<")", "\n", "print(result)", "\n">>

\* a function-mode harness call over a case with an input and a case without
C20_Witness ==
    /\ hpc = "done"
    /\ mode = "function"
    /\ Len(test_cases) = MaxExecs
    /\ Get(test_cases[1], "input") # <<>>
    /\ Get(test_cases[Len(test_cases)], "input") = <<>>
    /\ \A c \in Execs : Returned(c)

\* C21: in direct mode the harness has made exactly one call of run_python_code
\* for each test case it has taken, in order, with the user's code unchanged and
\* the input of the case as input_data; the caller waits only in the join of the
\* call of the case it has just taken, once for that case
C21_DirectModeCalls ==
    (mode = "direct" /\ hpc # "idle") =>
        /\ ncalls = base + idx
        /\ hpc = "done" => idx = Len(test_cases)
        /\ \A c \in Execs : c > base + idx => call[c] = <<>>
        /\ \A i \in 1..idx :
               /\ call[CallOf(i)].code = USER_CODE
               /\ call[CallOf(i)].input_data = Get(test_cases[i], "input")
        /\ hpc \in {"join", "check"} => idx >= 1 /\ ~Returned(CallOf(idx))
        /\ \A i \in 1..idx : Returned(CallOf(i)) \/ (i = idx /\ hpc \in {"join", "check"})

\* a direct-mode harness call over a case with an input and a case without
C21_Witness ==
    /\ hpc = "done"
    /\ mode = "direct"
    /\ Len(test_cases) = MaxExecs
    /\ Get(test_cases[1], "input") # <<>>
    /\ Get(test_cases[Len(test_cases)], "input") = <<>>
    /\ \A c \in Execs : Returned(c)

\* C22: a thread is a daemon from its start; a thread ends only by leaving
\* execute() itself; the caller never changes the position of a started thread
\* nor the streams; and a call that returns while its thread is alive returns
\* the timeout result and leaves the thread alive
C22_AbandonedNotKilled ==
    [][/\ \A c \in Execs : tpc'[c] # "new" => daemon'[c]
       /\ \A c \in Execs : (tpc'[c] = "dead" /\ tpc[c] # "dead") => tpc[c] = "exit"
       /\ CallerStep => /\ sys' = sys
                         /\ \A c \in Execs : tpc[c] # "new" => tpc'[c] = tpc[c]
       /\ (CallReturns /\ Alive(Cur)) =>
              /\ tpc'[Cur] = tpc[Cur]
              /\ ~ret'[Cur][1].succeeded
              /\ ret'[Cur][1].stderr = TimeoutMessage]_vars

\* the harness has returned, and the snippet of a call that timed out is still
\* running with its redirection in place
C22_Witness ==
    \E c \in Execs :
        /\ hpc = "done"
        /\ Returned(c)
        /\ ret[c][1].stderr = TimeoutMessage
        /\ daemon[c]
        /\ tpc[c] = "exec"
        /\ sys = Capture(c)

\* C23: when every thread that was started has ended, sys.stdin, sys.stdout and
\* sys.stderr are the host's streams
C23_HostStreamsWhenAllEnded ==
    (\A c \in Execs : ~Alive(c)) => sys = [s \in StreamNames |-> 0]

\* C24: a call that returns another result than the timeout result returns when
\* its thread has ended, the finally block done; and if no other execution was
\* in flight when the call began, the three streams are then those of its entry
C24_ThreadEndedAtReturn ==
    [][(/\ CallReturns
        /\ hpc' = "ret"
        /\ ret'[Cur][1].succeeded \/ ret'[Cur][1].stderr # TimeoutMessage) =>
           /\ tpc[Cur] = "dead"
           /\ call[Cur].inflight = {} => sys' = call[Cur].entry]_vars

\* the second call began with nothing in flight and has returned what its
\* snippet printed
C24_Witness ==
    /\ ncalls = MaxExecs
    /\ Returned(Cur)
    /\ ret[Cur][1].succeeded
    /\ ret[Cur][1].stdout # <<>>
    /\ call[Cur].inflight = {}
    /\ hpc = "ret"

\* the result is the timeout result
IsTimeoutResult(r) == ~r.succeeded /\ r.stderr = TimeoutMessage

\* C25: a call returns the timeout result exactly when its thread is alive at
\* the check after the join, and then it has waited the whole timeout; the
\* queue of such a call is never read, so what its thread has put or puts later
\* stays there, and what a call has returned never changes
C25_TimeoutIffAlive ==
    [][/\ (CallReturns /\ hpc' = "ret") =>
              /\ IsTimeoutResult(ret'[Cur][1]) <=> Alive(Cur)
              /\ Alive(Cur) => waited[Cur] = EXECUTION_TIMEOUT /\ rq'[Cur] = rq[Cur]
       /\ \A c \in Execs :
              Returned(c) => /\ ret'[c] = ret[c]
                             /\ Len(rq'[c]) >= Len(rq[c])
                             /\ SubSeq(rq'[c], 1, Len(rq[c])) = rq[c]]_vars

\* the thread of a call that timed out has put its result and ended; the result
\* is still in the queue after the harness has returned
C25_Witness ==
    \E c \in Execs :
        /\ hpc = "done"
        /\ Returned(c)
        /\ IsTimeoutResult(ret[c][1])
        /\ tpc[c] = "dead"
        /\ Len(rq[c]) = 1
        /\ rq[c][1].succeeded

\* the result is the fallback of a call that found its queue empty
IsFallbackResult(r) == ~r.succeeded /\ r.stderr = NoResultMessage

\* the snippet of execution c has ended and its thread is past the put
PastPut(c) == tpc[c] \in {"restore", "exit", "dead"}

\* C26: a result queue never holds more than one item; a thread whose snippet
\* ended normally or by an Exception has put exactly one result, which is in
\* the queue or is what the call returned; the fallback result is returned only
\* for a thread that ended by a BaseException, having put nothing
C26_OneResultPerQueue ==
    \A c \in Execs :
        /\ Len(rq[c]) <= 1
        /\ (PastPut(c) /\ outcome[c] \in {"ok", "exception"}) =>
               \/ Len(rq[c]) = 1 /\ (Returned(c) => IsTimeoutResult(ret[c][1]))
               \/ /\ rq[c] = <<>>
                  /\ Returned(c)
                  /\ ~IsTimeoutResult(ret[c][1])
                  /\ ~IsFallbackResult(ret[c][1])
                  /\ ret[c][1].succeeded <=> outcome[c] = "ok"
        /\ (PastPut(c) /\ outcome[c] = "base_exception") => rq[c] = <<>>
        /\ (Returned(c) /\ IsFallbackResult(ret[c][1])) =>
               outcome[c] = "base_exception" /\ tpc[c] = "dead" /\ rq[c] = <<>>

\* the fallback has been returned for a snippet that printed and then raised a
\* BaseException
C26_Witness ==
    \E c \in Execs :
        /\ Returned(c)
        /\ IsFallbackResult(ret[c][1])
        /\ program.end = "base_exception"
        /\ program.ops = <<WriteOp("stdout", "a")>>

\* the three shapes of a verdict v of a run that returned r
ShapePassed(v, r) == v.passed /\ v.error = <<>> /\ r.succeeded

ShapeWrongAnswer(v, r) == ~v.passed /\ v.error = <<>> /\ r.succeeded

ShapeFault(v, r) ==
    /\ ~v.passed
    /\ v.error # <<>>
    /\ v.actual_output = <<>>
    /\ ~r.succeeded
    /\ \/ r.stderr = TRACEBACK
       \/ r.stderr = TimeoutMessage
       \/ r.stderr = NoResultMessage

\* C27: every verdict has exactly one of the three shapes passed, wrong answer
\* and fault, and the verdict of a run that failed has a non-empty error
C27_VerdictShapes ==
    \A i \in 1..Len(results) :
        LET v == results[i]
            r == ret[CallOf(i)][1]
        IN  /\ Cardinality({k \in 1..3 :
                     \/ k = 1 /\ ShapePassed(v, r)
                     \/ k = 2 /\ ShapeWrongAnswer(v, r)
                     \/ k = 3 /\ ShapeFault(v, r)}) = 1
            /\ ~r.succeeded => v.error # <<>>

\* one harness call has reported a passed verdict and a fault
C27_Witness ==
    /\ hpc = "done"
    /\ \E i, j \in 1..Len(results) :
           /\ ShapePassed(results[i], ret[CallOf(i)][1])
           /\ ShapeFault(results[j], ret[CallOf(j)][1])

\* the value of a key of a test case, the empty string when the key is missing
KeyOrEmpty(tc, key) == IF key \in DOMAIN tc THEN tc[key] ELSE <<>>

\* C28: the verdict of test case i has as input the input of the case (direct
\* mode) or the text f(input) (function-call mode), and as expected_output the
\* stripped expected output of the case; a missing key counts as the empty
\* string, also in what is handed to run_python_code
C28_VerdictEchoesCase ==
    \A i \in 1..Len(results) :
        LET v == results[i]
            tc == test_cases[i]
        IN  /\ mode = "direct" => v.input = KeyOrEmpty(tc, "input")
            /\ mode = "function" =>
                   v.input = FUNCTION_NAME \o <<"(">> \o KeyOrEmpty(tc, "input") \o <<")">>
            /\ v.expected_output = Strip(KeyOrEmpty(tc, "expected_output"))
            /\ v.passed <=> /\ ret[CallOf(i)][1].succeeded
                            /\ Str(v.actual_output) = Strip(KeyOrEmpty(tc, "expected_output"))
            /\ mode = "direct" => call[CallOf(i)].input_data = KeyOrEmpty(tc, "input")

\* function-call mode over a case with both keys, whose expected output had
\* spaces around it, and the empty case, which passed on an empty output
C28_Witness ==
    /\ hpc = "done"
    /\ mode = "function"
    /\ Len(results) = MaxExecs
    /\ test_cases[1] # <<>>
    /\ results[1].input = <<"f", "(", "5", ")">>
    /\ results[1].expected_output = <<"a">>
    /\ test_cases[Len(results)] = <<>>
    /\ results[Len(results)].input = <<"f", "(", ")">>
    /\ results[Len(results)].expected_output = <<>>
    /\ results[Len(results)].passed

(***************************************************************************)
(* C29                                                                     *)
(***************************************************************************)
\* position k of a template begins a statement: only indentation lies
\* between the beginning of its line and k
BeginsStatement(s, k) ==
    \A j \in 1..(k - 1) :
        (\A i \in j..(k - 1) : s[i] # "\n") => s[j] \in {" ", "\t"}

\* a function definition stands at position k: the keyword def begins a
\* statement and is followed by blanks, a name and an opening parenthesis
DefinesFunctionAt(s, k) ==
    /\ BeginsStatement(s, k)
    /\ k + 4 <= Len(s)
    /\ SubSeq(s, k, k + 3) \in {<<"d", "e", "f", " ">>, <<"d", "e", "f", "\t">>}
    /\ \E e \in (k + 5)..Len(s) :
           /\ s[e] = "("
           /\ \E b \in (k + 4)..(e - 1) :
                  /\ \A i \in (k + 4)..(b - 1) : s[i] \in {" ", "\t"}
                  /\ \A i \in b..(e - 1) : s[i] \in WordChars
                  /\ s[b] \notin {"0", "1", "2", "3", "4", "5", "6", "7", "8", "9"}

\* the name of the function defined at position k
DefinedNameAt(s, k) ==
    LET e == CHOOSE e \in (k + 5)..Len(s) :
                 s[e] = "(" /\ \A i \in (k + 5)..(e - 1) : s[i] # "("
        b == CHOOSE b \in (k + 4)..(e - 1) :
                 /\ s[b] \in WordChars
                 /\ \A i \in (k + 4)..(b - 1) : s[i] \notin WordChars
    IN  SubSeq(s, b, e - 1)

\* the names of the functions a template defines, in the order of the text
RECURSIVE DefinedFrom(_, _)
DefinedFrom(s, k) ==
    IF k > Len(s) THEN <<>>
    ELSE (IF DefinesFunctionAt(s, k) THEN <<DefinedNameAt(s, k)>> ELSE <<>>)
             \o DefinedFrom(s, k + 1)

DefinedFunctions(s) == DefinedFrom(s, 1)

\* the lines of a report that number a test case
CaseLines(lines) == SelectSeq(lines, LAMBDA l : l.label = "case")

\* the numbered lines follow the order of the verdicts, and the flag is
\* all_passed
ReportFollowsVerdicts ==
    report # <<>> =>
        /\ report[1].is_correct = all_passed
        /\ Len(CaseLines(report[1].lines)) = Len(results)
        /\ \A i \in 1..Len(results) :
               /\ CaseLines(report[1].lines)[i].no = i
               /\ CaseLines(report[1].lines)[i].value
                      = (IF results[i].passed THEN "passed" ELSE "failed")

\* the harness mode of an answer check is function-call mode with the first
\* function the template defines if it defines one, direct mode otherwise
ModeFollowsTemplate ==
    checking =>
        IF DefinedFunctions(template) # <<>>
        THEN mode = "function" /\ func_name = DefinedFunctions(template)[1]
        ELSE mode = "direct"

\* C29: an answer check runs one harness mode, function-call mode with the
\* first function name defined in the question's code template if the
\* template contains a function definition and direct mode otherwise; the
\* numbered lines of its report follow the verdict order and its flag is the
\* harness's all_passed
C29_OneModeByTemplate == ModeFollowsTemplate /\ ReportFollowsVerdicts

=============================================================================
